---- MODULE Spec2Model ----
(***************************************************************************)
(* gcp-github-secrets: provisioning of a GitHub Actions -> GCP Secret      *)
(* Manager trust bridge.  Four programs converge on one remote resource    *)
(* model and are modelled as variants of one reconcile:                    *)
(*   "direct"   the direct-binding setup script     (src/unnamed/part_000) *)
(*   "sa"       the service-account setup script (src/unnamed/part_001:1)  *)
(*   "poolwide" the pool-wide binding script    (src/unnamed/part_001:91)  *)
(*   "pulumi"   the GcpGithubSecrets component           (src/src/index.ts) *)
(* The remote project (GCP) is the only persistent state; a script is a    *)
(* sequence of gcloud calls under `set -euo pipefail`, the component is a  *)
(* set of resource registrations applied by the deployment engine.         *)
(***************************************************************************)
EXTENDS Naturals, Sequences, FiniteSets, TLC

\* ------------------------------------------------------------------ bounds
MaxRepos == 2
MaxRuns == 2
MaxFaults == 1
\* The longest repository list tried together with configured secrets.
MaxSecretRepos == 1

\* --------------------------------------------------------------- constants
Undefined == "undefined"
SecretAccessor == "roles/secretmanager.secretAccessor"
WorkloadIdentityUser == "roles/iam.workloadIdentityUser"
IssuerUri == "https://token.actions.githubusercontent.com"
PROJECT_ID == "gcp-github-secrets"
ExistingProjectNumber == "123456789"
NewProjectNumber == "987654321"

\* Repository patterns are character sequences, so that trimming and the
\* search for "/" are computed and not assumed.
OrgWildcard == <<"a", "/", "*">>
PaddedWildcard == <<" ", "a", "/", "*">>
NoSlash == <<"x">>
Patterns == {OrgWildcard, PaddedWildcard, NoSlash}

RECURSIVE Str(_)
Str(s) == IF s = <<>> THEN "" ELSE Head(s) \o Str(Tail(s))

RECURSIVE SeqsUpTo(_, _)
SeqsUpTo(S, n) ==
  IF n = 0 THEN {<<>>}
  ELSE SeqsUpTo(S, n - 1) \cup
       {Append(s, x) : s \in {t \in SeqsUpTo(S, n - 1) : Len(t) = n - 1}, x \in S}

Range(s) == {s[k] : k \in 1..Len(s)}

\* --------------------------------------------------------- shell helpers
\* ALLOWED_REPOS="owner/repo,owner/*": the comma-separated configuration line.
RECURSIVE Join(_)
Join(list) ==
  IF list = <<>> THEN <<>>
  ELSE IF Len(list) = 1 THEN list[1]
  ELSE list[1] \o <<",">> \o Join(Tail(list))

\* IFS=',' read -ra REPOS <<< "$ALLOWED_REPOS": fields between commas; the
\* empty line gives no field and one trailing empty field is dropped.
RECURSIVE Fields(_, _)
Fields(s, cur) ==
  IF s = <<>> THEN <<cur>>
  ELSE IF Head(s) = "," THEN <<cur>> \o Fields(Tail(s), <<>>)
  ELSE Fields(Tail(s), Append(cur, Head(s)))

ReadArray(line) ==
  IF line = <<>> THEN <<>>
  ELSE LET f == Fields(line, <<>>)
       IN IF f[Len(f)] = <<>> THEN SubSeq(f, 1, Len(f) - 1) ELSE f

\* repo=$(echo "$repo" | xargs): the words of the field joined by one blank,
\* which drops leading and trailing blanks.
RECURSIVE Words(_, _, _)
Words(s, started, pending) ==
  IF s = <<>> THEN <<>>
  ELSE IF Head(s) = " " THEN Words(Tail(s), started, started)
  ELSE (IF pending THEN <<" ">> ELSE <<>>) \o <<Head(s)>>
       \o Words(Tail(s), TRUE, FALSE)

Xargs(s) == Words(s, FALSE, FALSE)

\* ------------------------------------------------------- derived identities
\* (mutant) the configured prefix is ignored.
PrefixIgnored(c) == "github-secrets"

Prefix(c) ==
  IF c.resourcePrefix = Undefined THEN "github-secrets" ELSE c.resourcePrefix

POOL_ID(c) == Prefix(c) \o "-pool"
PROVIDER_ID(c) == Prefix(c) \o "-github"
SERVICE_ACCOUNT_ID(c) == Prefix(c) \o "-reader"

ServiceAccountEmail(c) ==
  SERVICE_ACCOUNT_ID(c) \o "@" \o c.projectId \o ".iam.gserviceaccount.com"

\* (mutant) the textual project id where the project number belongs.
PoolPathWithProjectId(number, c) ==
  "projects/" \o c.projectId \o "/locations/global/workloadIdentityPools/"
    \o POOL_ID(c)

PoolPath(number, c) ==
  "projects/" \o number \o "/locations/global/workloadIdentityPools/" \o POOL_ID(c)

PrincipalSet(number, c, repo) ==
  "principalSet://iam.googleapis.com/" \o PoolPath(number, c)
    \o "/attribute.repository/" \o Str(repo)

PoolWideMember(number, c) ==
  "principalSet://iam.googleapis.com/" \o PoolPath(number, c) \o "/*"

ServiceAccountMember(c) == "serviceAccount:" \o ServiceAccountEmail(c)

WorkloadIdentityProvider(number, c) ==
  PoolPath(number, c) \o "/providers/" \o PROVIDER_ID(c)

IsScript(c) == c.variant \in {"direct", "sa", "poolwide"}
UsesServiceAccount(c) == c.variant \in {"sa", "pulumi"}

\* The repositories the binding loop iterates over: the script reads them
\* from the comma-separated line and trims each; the component takes the
\* array as given.
REPOS(c) ==
  IF c.variant = "pulumi" THEN c.allowedRepositories
  ELSE IF c.variant = "poolwide" THEN <<>>
  ELSE LET f == ReadArray(Join(c.allowedRepositories))
       IN [k \in 1..Len(f) |-> Xargs(f[k])]

\* ------------------------------------------------------------------- state
VARIABLES
  cfg,      \* the configuration record the reconcile is invoked with
  remote,   \* the project as the cloud provider holds it
  stack,    \* the deployment engine's record of the resources it manages
  proc,     \* per reconcile process: position, loop index, shell variables
  faults,   \* transient remote failures injected so far
  start     \* the configuration and remote state at the start (history)

vars == <<cfg, remote, stack, proc, faults, start>>

\* ----------------------------------------------------------- remote records
OwnerEquals ==
  [attribute |-> "assertion.repository_owner", operator |-> "==",
   operand |-> "'domdomegg'"]
OwnerNonEmpty ==
  [attribute |-> "assertion.repository_owner", operator |-> "!=",
   operand |-> "''"]
NoCondition == [attribute |-> "", operator |-> "", operand |-> ""]

FullMapping ==
  {"google.subject", "attribute.actor", "attribute.repository",
   "attribute.repository_owner"}
MappingWithoutActor ==
  {"google.subject", "attribute.repository", "attribute.repository_owner"}

\* --attribute-condition of each program (none in the component).
AttributeCondition(c) ==
  IF c.variant = "sa" THEN OwnerNonEmpty
  ELSE IF c.variant = "pulumi" THEN NoCondition
  ELSE OwnerEquals

AttributeMapping(c) ==
  IF c.variant = "poolwide" THEN MappingWithoutActor ELSE FullMapping

PoolRecord(c) == [id |-> POOL_ID(c), displayName |-> "GitHub Actions"]

ProviderRecord(c) ==
  [id |-> PROVIDER_ID(c), pool |-> POOL_ID(c), displayName |-> "GitHub",
   attributeMapping |-> AttributeMapping(c),
   attributeCondition |-> AttributeCondition(c), issuerUri |-> IssuerUri]

AccountRecord(c) ==
  [email |-> ServiceAccountEmail(c),
   displayName |-> "GitHub Actions Secret Reader"]

AccessorBinding(c) ==
  [member |-> ServiceAccountMember(c), role |-> SecretAccessor]

DirectBinding(number, c, repo) ==
  [member |-> PrincipalSet(number, c, repo), role |-> SecretAccessor]

PoolWideBinding(number, c) ==
  [member |-> PoolWideMember(number, c), role |-> SecretAccessor]

ImpersonationBinding(number, c, repo) ==
  [account |-> ServiceAccountEmail(c),
   member |-> PrincipalSet(number, c, repo), role |-> WorkloadIdentityUser]

Version(data) == [data |-> data, state |-> "ENABLED"]

\* ------------------------------------------------ the cloud provider's API
\* Every call answers [error, remote]: error "" and the new remote state, or
\* an error and the remote state unchanged.
Ok(r) == [error |-> "", remote |-> r]
Err(e, r) == [error |-> e, remote |-> r]

ApiCreateProject(r) ==
  IF r.project THEN Err("ALREADY_EXISTS", r)
  ELSE Ok([r EXCEPT !.project = TRUE, !.number = NewProjectNumber])

ApiEnableServices(r) ==
  IF ~r.project THEN Err("NOT_FOUND", r) ELSE Ok([r EXCEPT !.apis = TRUE])

HasPool(r, id) == \E q \in r.pools : q.id = id
HasProvider(r, pool, id) == \E q \in r.providers : q.pool = pool /\ q.id = id
HasAccount(r, email) == \E q \in r.accounts : q.email = email

\* (mutant) a provider that does not reject the create of an id it holds.
ApiCreatePoolUnserialized(r, pool) ==
  IF ~r.project THEN Err("NOT_FOUND", r)
  ELSE Ok([r EXCEPT !.pools = @ \cup {pool}])

ApiCreatePool(r, pool) ==
  IF ~r.project THEN Err("NOT_FOUND", r)
  ELSE IF HasPool(r, pool.id) THEN Err("ALREADY_EXISTS", r)
  ELSE Ok([r EXCEPT !.pools = @ \cup {pool}])

ApiCreateProvider(r, provider) ==
  IF ~r.project \/ ~HasPool(r, provider.pool) THEN Err("NOT_FOUND", r)
  ELSE IF HasProvider(r, provider.pool, provider.id)
       THEN Err("ALREADY_EXISTS", r)
  ELSE Ok([r EXCEPT !.providers = @ \cup {provider}])

ApiCreateAccount(r, account) ==
  IF ~r.project THEN Err("NOT_FOUND", r)
  ELSE IF HasAccount(r, account.email) THEN Err("ALREADY_EXISTS", r)
  ELSE Ok([r EXCEPT !.accounts = @ \cup {account}])

\* (mutant) set-iam-policy: the binding replaces the policy.
ApiSetProjectBinding(r, binding) ==
  IF ~r.project THEN Err("NOT_FOUND", r)
  ELSE Ok([r EXCEPT !.projectIam = {binding}])

\* add-iam-policy-binding: the policy is a set of (member, role).
ApiAddProjectBinding(r, binding) ==
  IF ~r.project THEN Err("NOT_FOUND", r)
  ELSE Ok([r EXCEPT !.projectIam = @ \cup {binding}])

ApiAddAccountBinding(r, binding) ==
  IF ~r.project \/ ~HasAccount(r, binding.account) THEN Err("NOT_FOUND", r)
  ELSE Ok([r EXCEPT !.accountIam = @ \cup {binding}])

ApiGetProject(r) == IF ~r.project THEN Err("NOT_FOUND", r) ELSE Ok(r)

\* Secret Manager answers only in a project with its API enabled.
ApiCreateSecret(r, name) ==
  IF ~r.project THEN Err("NOT_FOUND", r)
  ELSE IF ~r.apis THEN Err("SERVICE_DISABLED", r)
  ELSE IF name \in DOMAIN r.secrets THEN Err("ALREADY_EXISTS", r)
  ELSE Ok([r EXCEPT !.secrets = @ @@ (name :> <<>>)])

ApiAddVersion(r, name, data) ==
  IF ~r.project \/ name \notin DOMAIN r.secrets THEN Err("NOT_FOUND", r)
  ELSE IF ~r.apis THEN Err("SERVICE_DISABLED", r)
  ELSE Ok([r EXCEPT !.secrets[name] = Append(@, Version(data))])

\* versions.destroy: the payload is gone for good, the version's number stays.
ApiDestroyVersion(r, name, k) ==
  IF ~r.project \/ name \notin DOMAIN r.secrets THEN Err("NOT_FOUND", r)
  ELSE IF k \notin 1..Len(r.secrets[name]) THEN Err("NOT_FOUND", r)
  ELSE Ok([r EXCEPT !.secrets[name][k] = [data |-> "", state |-> "DESTROYED"]])

\* ------------------------------------------------------------ initial states
NoProject ==
  [project |-> FALSE, number |-> "", apis |-> FALSE, pools |-> {},
   providers |-> {}, accounts |-> {}, projectIam |-> {}, accountIam |-> {},
   secrets |-> <<>>]

BareProject ==
  [NoProject EXCEPT !.project = TRUE, !.number = ExistingProjectNumber]

EnabledProject == [BareProject EXCEPT !.apis = TRUE]

\* A project provisioned earlier, by hand or by an older revision: the
\* default-prefix resources exist with other display fields.
LegacyConfig ==
  [variant |-> "sa", projectId |-> PROJECT_ID,
   resourcePrefix |-> "github-secrets", allowedRepositories |-> <<>>,
   secrets |-> <<>>]

LegacyProject ==
  [EnabledProject EXCEPT
     !.pools = {[id |-> POOL_ID(LegacyConfig), displayName |-> "Legacy"]},
     !.providers =
        {[id |-> PROVIDER_ID(LegacyConfig), pool |-> POOL_ID(LegacyConfig),
          displayName |-> "Legacy", attributeMapping |-> MappingWithoutActor,
          attributeCondition |-> OwnerEquals, issuerUri |-> IssuerUri]},
     !.accounts =
        {[email |-> ServiceAccountEmail(LegacyConfig),
          displayName |-> "Legacy"]},
     !.projectIam = {AccessorBinding(LegacyConfig)},
     !.accountIam =
        {ImpersonationBinding(ExistingProjectNumber, LegacyConfig,
                              <<"a", "/", "b">>)}]

RemoteStates == {NoProject, BareProject, EnabledProject, LegacyProject}

SecretNames == {"npm-token"}
SecretValues == {"A", "B"}

Configurations ==
  {[variant |-> v, projectId |-> PROJECT_ID, resourcePrefix |-> x,
    allowedRepositories |-> repos, secrets |-> s] :
     v \in {"direct", "sa"}, x \in {"github-secrets", "gs"},
     repos \in SeqsUpTo(Patterns, MaxRepos), s \in {<<>>}}
  \cup
  {[variant |-> "poolwide", projectId |-> PROJECT_ID, resourcePrefix |-> x,
    allowedRepositories |-> <<>>, secrets |-> <<>>] :
     x \in {"github-secrets", "gs"}}
  \cup
  {[variant |-> "pulumi", projectId |-> PROJECT_ID, resourcePrefix |-> x,
    allowedRepositories |-> repos, secrets |-> <<>>] :
     x \in {Undefined, "gs"}, repos \in SeqsUpTo(Patterns, MaxRepos)}
  \cup
  {[variant |-> "pulumi", projectId |-> PROJECT_ID, resourcePrefix |-> x,
    allowedRepositories |-> repos, secrets |-> [n \in SecretNames |-> "A"]] :
     x \in {Undefined, "gs"}, repos \in SeqsUpTo(Patterns, MaxSecretRepos)}

\* The reconcile processes: one operator runs the program at a time.
Procs == {1}

NoOut == [workloadIdentityProvider |-> "", serviceAccountEmail |-> ""]

\* (mutant) the script starts at the pool, without project and API steps.
FirstPcAtPool(c) == IF IsScript(c) THEN "describe_pool" ELSE "up"

FirstPc(c) == IF IsScript(c) THEN "describe_project" ELSE "up"

Fresh(c, r) ==
  [pc |-> FirstPc(c), i |-> 0, PROJECT_NUMBER |-> "", issued |-> {},
   failed |-> {}, registered |-> {}, out |-> NoOut, run |-> 1,
   sameConfig |-> TRUE,
   prev |-> [status |-> "none", out |-> NoOut, remote |-> r]]

Init ==
  /\ cfg \in Configurations
  /\ remote \in RemoteStates
  /\ stack = <<>>
  /\ proc = [p \in Procs |-> Fresh(cfg, remote)]
  /\ faults = 0
  /\ start = [cfg |-> cfg, remote |-> remote]

\* ------------------------------------------------------ one call of a script
Call(name, k) == [name |-> name, index |-> k]

FaultChoices == IF faults < MaxFaults THEN {FALSE, TRUE} ELSE {FALSE}

\* The answer of a remote call: the provider's, or a transient failure.
Answer(fault, res) == IF fault THEN Err("UNAVAILABLE", remote) ELSE res

Count(fault) == IF fault THEN faults + 1 ELSE faults

\* echo "workload_identity_provider: ..." / "service_account: ...".
Echo(l, c) ==
  [workloadIdentityProvider |-> WorkloadIdentityProvider(l.PROJECT_NUMBER, c),
   serviceAccountEmail |->
     IF UsesServiceAccount(c) THEN ServiceAccountEmail(c) ELSE ""]

Enter(l, next, c) ==
  IF next = "done" THEN [l EXCEPT !.pc = "done", !.out = Echo(l, c)]
  ELSE [l EXCEPT !.pc = next]

Record(l, call, res) ==
  [l EXCEPT !.issued = @ \cup {call},
            !.failed = IF res.error = "" THEN @
                       ELSE @ \cup {[call |-> call, error |-> res.error]}]

\* A command under `set -euo pipefail`: a failure ends the script.
Command(l, call, res, next, c) ==
  IF res.error = "" THEN Enter(Record(l, call, res), next, c)
  ELSE [Record(l, call, res) EXCEPT !.pc = "aborted"]

\* (mutant) the create is issued without looking at what describe found.
GuardAlwaysCreate(l, call, res, found, absent) ==
  [(IF res.error = "NOT_FOUND" THEN Record(l, call, Ok(res.remote))
    ELSE Record(l, call, res))
   EXCEPT !.pc = absent]

\* `if ! gcloud ... describe ... &>/dev/null; then`: any non-zero exit of the
\* describe, whatever its cause, takes the create branch; its output and its
\* error are discarded.  Only a failure other than the resource's absence is
\* recorded as a failed call.
Guard(l, call, res, found, absent) ==
  [(IF res.error = "NOT_FOUND" THEN Record(l, call, Ok(res.remote))
    ELSE Record(l, call, res))
   EXCEPT !.pc = IF res.error = "" THEN found ELSE absent]

Exists(present, r) == IF present THEN Ok(r) ELSE Err("NOT_FOUND", r)

AfterProvider(c) ==
  IF c.variant = "sa" THEN "describe_account" ELSE "get_project_number"

AfterNumber(c) ==
  IF c.variant = "poolwide" THEN "bind_pool"
  ELSE IF Len(REPOS(c)) = 0 THEN "done" ELSE "bind_repo"

\* ----------------------------------------------------------- script actions
DescribeProject(p) ==
  /\ proc[p].pc = "describe_project"
  /\ \E fault \in FaultChoices :
       /\ proc' = [proc EXCEPT ![p] =
            Guard(@, Call("projects.describe", 0),
                  Answer(fault, Exists(remote.project, remote)),
                  "enable_services", "create_project")]
       /\ faults' = Count(fault)
  /\ UNCHANGED <<cfg, remote, stack, start>>

CreateProject(p) ==
  /\ proc[p].pc = "create_project"
  /\ \E fault \in FaultChoices :
       LET res == Answer(fault, ApiCreateProject(remote))
       IN /\ proc' = [proc EXCEPT ![p] =
                Command(@, Call("projects.create", 0), res,
                        "enable_services", cfg)]
          /\ remote' = res.remote
          /\ faults' = Count(fault)
  /\ UNCHANGED <<cfg, stack, start>>

EnableServices(p) ==
  /\ proc[p].pc = "enable_services"
  /\ \E fault \in FaultChoices :
       LET res == Answer(fault, ApiEnableServices(remote))
       IN /\ proc' = [proc EXCEPT ![p] =
                Command(@, Call("services.enable", 0), res,
                        "describe_pool", cfg)]
          /\ remote' = res.remote
          /\ faults' = Count(fault)
  /\ UNCHANGED <<cfg, stack, start>>

DescribePool(p) ==
  /\ proc[p].pc = "describe_pool"
  /\ \E fault \in FaultChoices :
       /\ proc' = [proc EXCEPT ![p] =
            Guard(@, Call("pools.describe", 0),
                  Answer(fault, Exists(HasPool(remote, POOL_ID(cfg)), remote)),
                  "describe_provider", "create_pool")]
       /\ faults' = Count(fault)
  /\ UNCHANGED <<cfg, remote, stack, start>>

CreatePool(p) ==
  /\ proc[p].pc = "create_pool"
  /\ \E fault \in FaultChoices :
       LET res == Answer(fault, ApiCreatePool(remote, PoolRecord(cfg)))
       IN /\ proc' = [proc EXCEPT ![p] =
                Command(@, Call("pools.create", 0), res,
                        "describe_provider", cfg)]
          /\ remote' = res.remote
          /\ faults' = Count(fault)
  /\ UNCHANGED <<cfg, stack, start>>

DescribeProvider(p) ==
  /\ proc[p].pc = "describe_provider"
  /\ \E fault \in FaultChoices :
       /\ proc' = [proc EXCEPT ![p] =
            Guard(@, Call("providers.describe", 0),
                  Answer(fault,
                         Exists(HasProvider(remote, POOL_ID(cfg),
                                            PROVIDER_ID(cfg)), remote)),
                  AfterProvider(cfg), "create_provider")]
       /\ faults' = Count(fault)
  /\ UNCHANGED <<cfg, remote, stack, start>>

CreateProvider(p) ==
  /\ proc[p].pc = "create_provider"
  /\ \E fault \in FaultChoices :
       LET res == Answer(fault, ApiCreateProvider(remote, ProviderRecord(cfg)))
       IN /\ proc' = [proc EXCEPT ![p] =
                Command(@, Call("providers.create", 0), res,
                        AfterProvider(cfg), cfg)]
          /\ remote' = res.remote
          /\ faults' = Count(fault)
  /\ UNCHANGED <<cfg, stack, start>>

DescribeAccount(p) ==
  /\ proc[p].pc = "describe_account"
  /\ \E fault \in FaultChoices :
       /\ proc' = [proc EXCEPT ![p] =
            Guard(@, Call("accounts.describe", 0),
                  Answer(fault,
                         Exists(HasAccount(remote, ServiceAccountEmail(cfg)),
                                remote)),
                  "bind_accessor", "create_account")]
       /\ faults' = Count(fault)
  /\ UNCHANGED <<cfg, remote, stack, start>>

CreateAccount(p) ==
  /\ proc[p].pc = "create_account"
  /\ \E fault \in FaultChoices :
       LET res == Answer(fault, ApiCreateAccount(remote, AccountRecord(cfg)))
       IN /\ proc' = [proc EXCEPT ![p] =
                Command(@, Call("accounts.create", 0), res,
                        "bind_accessor", cfg)]
          /\ remote' = res.remote
          /\ faults' = Count(fault)
  /\ UNCHANGED <<cfg, stack, start>>

BindAccessor(p) ==
  /\ proc[p].pc = "bind_accessor"
  /\ \E fault \in FaultChoices :
       LET res == Answer(fault,
                         ApiAddProjectBinding(remote, AccessorBinding(cfg)))
       IN /\ proc' = [proc EXCEPT ![p] =
                Command(@, Call("accessor.bind", 0), res,
                        "get_project_number", cfg)]
          /\ remote' = res.remote
          /\ faults' = Count(fault)
  /\ UNCHANGED <<cfg, stack, start>>

\* PROJECT_NUMBER=$(gcloud projects describe ... --format="value(projectNumber)")
GetProjectNumber(p) ==
  /\ proc[p].pc = "get_project_number"
  /\ \E fault \in FaultChoices :
       LET res == Answer(fault, ApiGetProject(remote))
           l == [proc[p] EXCEPT
                   !.PROJECT_NUMBER = IF res.error = "" THEN remote.number
                                      ELSE @,
                   !.i = 1]
       IN /\ proc' = [proc EXCEPT ![p] =
                Command(l, Call("projects.number", 0), res,
                        AfterNumber(cfg), cfg)]
          /\ faults' = Count(fault)
  /\ UNCHANGED <<cfg, remote, stack, start>>

\* (mutant) every turn of the loop binds the first repository.
RepoBindingFirst(l, c) ==
  IF c.variant = "sa"
  THEN ApiAddAccountBinding(remote,
         ImpersonationBinding(l.PROJECT_NUMBER, c, REPOS(c)[1]))
  ELSE ApiAddProjectBinding(remote,
         DirectBinding(l.PROJECT_NUMBER, c, REPOS(c)[1]))

\* (mutant) the binding is created, not added: one that exists is an error.
RepoBindingCreateOnly(l, c) ==
  LET b == IF c.variant = "sa"
           THEN ImpersonationBinding(l.PROJECT_NUMBER, c, REPOS(c)[l.i])
           ELSE DirectBinding(l.PROJECT_NUMBER, c, REPOS(c)[l.i])
  IN IF b \in remote.accountIam \cup remote.projectIam
     THEN Err("ALREADY_EXISTS", remote)
     ELSE IF c.variant = "sa" THEN ApiAddAccountBinding(remote, b)
     ELSE ApiAddProjectBinding(remote, b)

\* One turn of `for repo in "${REPOS[@]}"`.
RepoBinding(l, c) ==
  IF c.variant = "sa"
  THEN ApiAddAccountBinding(remote,
         ImpersonationBinding(l.PROJECT_NUMBER, c, REPOS(c)[l.i]))
  ELSE ApiAddProjectBinding(remote,
         DirectBinding(l.PROJECT_NUMBER, c, REPOS(c)[l.i]))

BindRepo(p) ==
  /\ proc[p].pc = "bind_repo"
  /\ \E fault \in FaultChoices :
       LET res == Answer(fault, RepoBinding(proc[p], cfg))
           next == IF proc[p].i < Len(REPOS(cfg)) THEN "bind_repo" ELSE "done"
           l == [proc[p] EXCEPT !.i = IF res.error = "" THEN @ + 1 ELSE @]
       IN /\ proc' = [proc EXCEPT ![p] =
                Command(l, Call("repo.bind", proc[p].i), res, next, cfg)]
          /\ remote' = res.remote
          /\ faults' = Count(fault)
  /\ UNCHANGED <<cfg, stack, start>>

BindPool(p) ==
  /\ proc[p].pc = "bind_pool"
  /\ \E fault \in FaultChoices :
       LET res == Answer(fault,
                    ApiAddProjectBinding(remote,
                      PoolWideBinding(proc[p].PROJECT_NUMBER, cfg)))
       IN /\ proc' = [proc EXCEPT ![p] =
                Command(@, Call("pool.bind", 0), res, "done", cfg)]
          /\ remote' = res.remote
          /\ faults' = Count(fault)
  /\ UNCHANGED <<cfg, stack, start>>

\* ------------------------------------------- the component (src/src/index.ts)
\* The constructor registers its resources with the deployment engine, which
\* applies them in any order that respects the data flow between them: a
\* resource waits for the resources whose outputs it reads.  A registered
\* resource that the stack already holds with the same inputs is left alone,
\* one the stack does not hold is created.
WifUrn(k) == "wif-" \o ToString(k - 1)
SecretUrn(name) == "secret-" \o name
VersionUrn(name) == "secret-" \o name \o "-version"

Desired(c) ==
  {"pool", "provider", "sa", "secret-accessor", "project"}
    \cup {WifUrn(k) : k \in 1..Len(c.allowedRepositories)}
    \cup {SecretUrn(n) : n \in DOMAIN c.secrets}
    \cup {VersionUrn(n) : n \in DOMAIN c.secrets}

Ready(l, urn, deps) ==
  /\ l.pc = "up"
  /\ urn \notin l.registered
  /\ deps \subseteq l.registered

Held(urn, inputs) == urn \in DOMAIN stack /\ stack[urn] = inputs

Applied(l, urn, call, res) ==
  IF res.error = ""
  THEN [Record(l, call, res) EXCEPT !.registered = @ \cup {urn}]
  ELSE [Record(l, call, res) EXCEPT !.pc = "aborted"]

\* One registration: [called, l, stack, remote].
Register(l, urn, inputs, call, res) ==
  IF Held(urn, inputs)
  THEN [called |-> FALSE, l |-> [l EXCEPT !.registered = @ \cup {urn}],
        stack |-> stack, remote |-> remote]
  ELSE [called |-> TRUE, l |-> Applied(l, urn, call, res),
        stack |-> IF res.error = "" THEN stack @@ (urn :> inputs) ELSE stack,
        remote |-> res.remote]

Commit(p, o, fault) ==
  /\ fault => o.called
  /\ proc' = [proc EXCEPT ![p] = o.l]
  /\ stack' = o.stack
  /\ remote' = o.remote
  /\ faults' = Count(fault)
  /\ UNCHANGED <<cfg, start>>

UpPool(p) ==
  /\ Ready(proc[p], "pool", {})
  /\ \E fault \in FaultChoices :
       Commit(p, Register(proc[p], "pool", PoolRecord(cfg),
                          Call("pools.create", 0),
                          Answer(fault, ApiCreatePool(remote, PoolRecord(cfg)))),
              fault)

UpProvider(p) ==
  /\ Ready(proc[p], "provider", {"pool"})
  /\ \E fault \in FaultChoices :
       Commit(p, Register(proc[p], "provider", ProviderRecord(cfg),
                          Call("providers.create", 0),
                          Answer(fault,
                                 ApiCreateProvider(remote, ProviderRecord(cfg)))),
              fault)

UpAccount(p) ==
  /\ Ready(proc[p], "sa", {})
  /\ \E fault \in FaultChoices :
       Commit(p, Register(proc[p], "sa", AccountRecord(cfg),
                          Call("accounts.create", 0),
                          Answer(fault,
                                 ApiCreateAccount(remote, AccountRecord(cfg)))),
              fault)

UpAccessor(p) ==
  /\ Ready(proc[p], "secret-accessor", {"sa"})
  /\ \E fault \in FaultChoices :
       Commit(p, Register(proc[p], "secret-accessor", AccessorBinding(cfg),
                          Call("accessor.bind", 0),
                          Answer(fault,
                                 ApiAddProjectBinding(remote,
                                                      AccessorBinding(cfg)))),
              fault)

\* gcp.organizations.getProjectOutput: a lookup, made on every run.
UpProject(p) ==
  /\ Ready(proc[p], "project", {})
  /\ \E fault \in FaultChoices :
       LET res == Answer(fault, ApiGetProject(remote))
           l == [proc[p] EXCEPT
                   !.PROJECT_NUMBER = IF res.error = "" THEN remote.number
                                      ELSE @]
       IN /\ proc' = [proc EXCEPT ![p] =
                Applied(l, "project", Call("projects.number", 0), res)]
          /\ faults' = Count(fault)
  /\ UNCHANGED <<cfg, remote, stack, start>>

UpWif(p) ==
  \E k \in 1..Len(cfg.allowedRepositories) :
    /\ Ready(proc[p], WifUrn(k), {"sa", "pool", "project"})
    /\ \E fault \in FaultChoices :
         LET b == ImpersonationBinding(proc[p].PROJECT_NUMBER, cfg,
                                       cfg.allowedRepositories[k])
         IN Commit(p, Register(proc[p], WifUrn(k), b, Call("repo.bind", k),
                               Answer(fault, ApiAddAccountBinding(remote, b))),
                   fault)

UpSecret(p) ==
  \E name \in DOMAIN cfg.secrets :
    /\ Ready(proc[p], SecretUrn(name), {})
    /\ \E fault \in FaultChoices :
         Commit(p, Register(proc[p], SecretUrn(name), [secretId |-> name],
                            Call("secrets.create", 0),
                            Answer(fault, ApiCreateSecret(remote, name))),
                fault)

\* A SecretVersion whose secretData changed is replaced: the new version is
\* added and the version the stack held is deleted, which for a version with
\* the default deletion policy destroys it.
ReplaceVersion(r, name, data, old) ==
  LET added == ApiAddVersion(r, name, data)
  IN IF added.error # "" THEN added
     ELSE ApiDestroyVersion(added.remote, name, old)

VersionInputs(name, data, k) ==
  [secret |-> name, secretData |-> data, version |-> k]

UpVersion(p) ==
  \E name \in DOMAIN cfg.secrets :
    LET urn == VersionUrn(name)
        data == cfg.secrets[name]
        held == urn \in DOMAIN stack
        same == held /\ stack[urn].secretData = data
        next == IF name \in DOMAIN remote.secrets
                THEN Len(remote.secrets[name]) + 1 ELSE 1
    IN /\ Ready(proc[p], urn, {SecretUrn(name)})
       /\ \E fault \in FaultChoices :
            LET res == Answer(fault,
                         IF held
                         THEN ReplaceVersion(remote, name, data,
                                             stack[urn].version)
                         ELSE ApiAddVersion(remote, name, data))
                o == IF same
                     THEN [called |-> FALSE,
                           l |-> [proc[p] EXCEPT !.registered = @ \cup {urn}],
                           stack |-> stack, remote |-> remote]
                     ELSE [called |-> TRUE,
                           l |-> Applied(proc[p], urn,
                                         Call("versions.add", 0), res),
                           stack |-> IF res.error # "" THEN stack
                                     ELSE [u \in DOMAIN stack \cup {urn} |->
                                             IF u = urn
                                             THEN VersionInputs(name, data, next)
                                             ELSE stack[u]],
                           remote |-> res.remote]
            IN Commit(p, o, fault)

\* All registrations applied: registerOutputs.
UpDone(p) ==
  /\ proc[p].pc = "up"
  /\ proc[p].registered = Desired(cfg)
  /\ proc' = [proc EXCEPT ![p] = Enter(@, "done", cfg)]
  /\ UNCHANGED <<cfg, remote, stack, faults, start>>

\* pulumi config set --secret secrets '{...}' with another value, then up.
Reconfigure(p) ==
  /\ cfg.variant = "pulumi"
  /\ proc[p].pc \in {"done", "aborted"}
  /\ proc[p].run < MaxRuns
  /\ \E name \in DOMAIN cfg.secrets :
       \E v \in SecretValues \ {cfg.secrets[name]} :
         /\ cfg' = [cfg EXCEPT !.secrets[name] = v]
         /\ proc' = [proc EXCEPT ![p] =
              [Fresh(cfg', remote) EXCEPT
                 !.run = proc[p].run + 1, !.sameConfig = FALSE,
                 !.prev = [status |-> proc[p].pc, out |-> proc[p].out,
                           remote |-> remote]]]
  /\ UNCHANGED <<remote, stack, faults, start>>

\* The operator runs the same program again.
Again(l, c, r) ==
  [Fresh(c, r) EXCEPT
     !.run = l.run + 1, !.sameConfig = l.sameConfig,
     !.prev = [status |-> l.pc, out |-> l.out, remote |-> r]]

Rerun(p) ==
  /\ proc[p].pc \in {"done", "aborted"}
  /\ proc[p].run < MaxRuns
  /\ proc' = [proc EXCEPT ![p] = Again(@, cfg, remote)]
  /\ UNCHANGED <<cfg, remote, stack, faults, start>>

Next ==
  \E p \in Procs :
    \/ DescribeProject(p)
    \/ CreateProject(p)
    \/ EnableServices(p)
    \/ DescribePool(p)
    \/ CreatePool(p)
    \/ DescribeProvider(p)
    \/ CreateProvider(p)
    \/ DescribeAccount(p)
    \/ CreateAccount(p)
    \/ BindAccessor(p)
    \/ GetProjectNumber(p)
    \/ BindRepo(p)
    \/ BindPool(p)
    \/ UpPool(p)
    \/ UpProvider(p)
    \/ UpAccount(p)
    \/ UpAccessor(p)
    \/ UpProject(p)
    \/ UpWif(p)
    \/ UpSecret(p)
    \/ UpVersion(p)
    \/ UpDone(p)
    \/ Reconfigure(p)
    \/ Rerun(p)

Spec == Init /\ [][Next]_vars

\* ------------------------------------------------- two callers, one project
\* Two operators start the same script with the same configuration against
\* the same project.  Every gcloud call is one request, which the provider
\* answers atomically; between a describe and the create that follows it the
\* other caller's requests may be served.
Callers == {1, 2}

InitConcurrent ==
  /\ cfg \in {c \in Configurations : IsScript(c)}
  /\ remote \in RemoteStates
  /\ stack = <<>>
  /\ proc = [p \in Callers |-> Fresh(cfg, remote)]
  /\ faults = 0
  /\ start = [cfg |-> cfg, remote |-> remote]

NextConcurrent ==
  \E p \in Callers :
    \/ DescribeProject(p)
    \/ CreateProject(p)
    \/ EnableServices(p)
    \/ DescribePool(p)
    \/ CreatePool(p)
    \/ DescribeProvider(p)
    \/ CreateProvider(p)
    \/ DescribeAccount(p)
    \/ CreateAccount(p)
    \/ BindAccessor(p)
    \/ GetProjectNumber(p)
    \/ BindRepo(p)
    \/ BindPool(p)

SpecConcurrent == InitConcurrent /\ [][NextConcurrent]_vars

\* =================================================================== claims
\* Vocabulary of the claims (not part of the program).
NoTransientFault(l) == \A f \in l.failed : f.error # "UNAVAILABLE"

Succeeded(l, call) == call \in l.issued /\ \A f \in l.failed : f.call # call

NeverReconfigured(l) == l.sameConfig /\ cfg = start.cfg

\* ^[^/]+/(\*|[^/]+)$ : exactly one "/", with something on both sides.
Slashes(s) == {k \in 1..Len(s) : s[k] = "/"}
MatchesPattern(s) ==
  /\ Cardinality(Slashes(s)) = 1
  /\ \A k \in Slashes(s) : 1 < k /\ k < Len(s)
MissingSlash(s) == Slashes(s) = {}

\* The resource ids the configuration names, written out.
GivenPrefix == IF cfg.resourcePrefix = "undefined" THEN "github-secrets"
               ELSE cfg.resourcePrefix
ExpectedPool == GivenPrefix \o "-pool"
ExpectedProvider == GivenPrefix \o "-github"
ExpectedEmail ==
  GivenPrefix \o "-reader@" \o cfg.projectId \o ".iam.gserviceaccount.com"
ExpectedPrincipal(repo) ==
  "principalSet://iam.googleapis.com/projects/" \o remote.number
    \o "/locations/global/workloadIdentityPools/" \o ExpectedPool
    \o "/attribute.repository/" \o Str(repo)

\* The patterns as the program passes them on: the scripts trim each field.
GivenPatterns ==
  IF cfg.variant = "pulumi" THEN Range(cfg.allowedRepositories)
  ELSE IF cfg.variant = "poolwide" THEN {}
  ELSE {Xargs(x) : x \in Range(cfg.allowedRepositories)}

NoBindingsAtStart ==
  start.remote.projectIam = {} /\ start.remote.accountIam = {}

EmptyAtStart ==
  /\ NoBindingsAtStart
  /\ start.remote.pools = {} /\ start.remote.providers = {}
  /\ start.remote.accounts = {} /\ DOMAIN start.remote.secrets = {}

\* A run without transient failures meets no conflict: always so for the
\* scripts; for the component, when no resource it is about to create exists
\* outside its stack and Secret Manager is enabled if secrets are configured.
Feasible(c, r) ==
  \/ IsScript(c)
  \/ /\ r.project
     /\ ~HasPool(r, POOL_ID(c))
     /\ ~HasAccount(r, ServiceAccountEmail(c))
     /\ DOMAIN c.secrets # {} => r.apis /\ DOMAIN c.secrets \cap DOMAIN r.secrets = {}

\* What one uninterrupted run leaves behind, from remote state r.
Final(c, r) ==
  LET num == IF r.project THEN r.number ELSE NewProjectNumber
      repos == REPOS(c)
  IN [project |-> TRUE,
      number |-> num,
      apis |-> IF IsScript(c) THEN TRUE ELSE r.apis,
      pools |-> IF HasPool(r, POOL_ID(c)) THEN r.pools
                ELSE r.pools \cup {PoolRecord(c)},
      providers |-> IF HasProvider(r, POOL_ID(c), PROVIDER_ID(c))
                    THEN r.providers
                    ELSE r.providers \cup {ProviderRecord(c)},
      accounts |-> IF ~UsesServiceAccount(c)
                      \/ HasAccount(r, ServiceAccountEmail(c))
                   THEN r.accounts
                   ELSE r.accounts \cup {AccountRecord(c)},
      projectIam |->
        r.projectIam
          \cup (IF UsesServiceAccount(c) THEN {AccessorBinding(c)} ELSE {})
          \cup (IF c.variant = "direct"
                THEN {DirectBinding(num, c, repos[k]) : k \in 1..Len(repos)}
                ELSE {})
          \cup (IF c.variant = "poolwide" THEN {PoolWideBinding(num, c)}
                ELSE {}),
      accountIam |->
        r.accountIam
          \cup (IF UsesServiceAccount(c)
                THEN {ImpersonationBinding(num, c, repos[k]) :
                        k \in 1..Len(repos)}
                ELSE {}),
      secrets |->
        [n \in DOMAIN r.secrets \cup DOMAIN c.secrets |->
           IF n \in DOMAIN c.secrets THEN <<Version(c.secrets[n])>>
           ELSE r.secrets[n]]]

\* C1 -- Idempotence of reconcile: a second run with the identical
\* configuration after a successful first run, none of whose remote calls
\* fails transiently, meets no error (so no duplicate-resource error), leaves
\* the remote state exactly as the first run left it (nothing created, nothing
\* deleted) and ends with the same outputs.
C1_Idempotent ==
  \A p \in Procs :
    LET l == proc[p]
    IN (l.run > 1 /\ l.prev.status = "done" /\ NeverReconfigured(l)
        /\ NoTransientFault(l))
       => /\ l.failed = {}
          /\ l.pc # "aborted"
          /\ remote = l.prev.remote
          /\ (l.pc = "done" => l.out = l.prev.out)

C1_Witness ==
  \E p \in Procs :
    /\ proc[p].run = 2 /\ proc[p].prev.status = "done"
    /\ proc[p].pc = "done" /\ proc[p].failed = {}
    /\ NeverReconfigured(proc[p])
    /\ remote.pools # {} /\ remote.projectIam # {}
    /\ remote # start.remote

\* The bindings that name a repository pattern, and the accessor bindings.
PatternBindings ==
  IF cfg.variant = "direct" THEN remote.projectIam
  ELSE IF cfg.variant = "poolwide" THEN {}
  ELSE remote.accountIam
AccessorBindings ==
  {b \in remote.projectIam :
     b.role = "roles/secretmanager.secretAccessor"
     /\ b.member = "serviceAccount:" \o ExpectedEmail}

\* C2 (as stated) -- after a successful reconcile the number of
\* authorization bindings is exactly n = len(allowedRepositoryPatterns), also
\* for lists with repeated patterns (plus one secret-accessor binding in the
\* service-identity variant).
C2_CountIsLength ==
  \A p \in Procs :
    (proc[p].pc = "done" /\ NoBindingsAtStart /\ cfg.variant # "poolwide")
    => /\ Cardinality(PatternBindings) = Len(cfg.allowedRepositories)
       /\ UsesServiceAccount(cfg) => Cardinality(AccessorBindings) = 1

\* C2 (amended) -- after a successful reconcile from a project without
\* bindings, the number of per-pattern bindings is the number of distinct
\* patterns (the scripts trim each pattern first), which is n when the
\* patterns are pairwise distinct; the service-identity variant adds exactly
\* one secret-accessor binding and nothing else; the pool-wide script, which
\* takes no pattern list, adds exactly one pool-wide binding.
C2_CountIsDistinct ==
  \A p \in Procs :
    (proc[p].pc = "done" /\ NoBindingsAtStart)
    => /\ Cardinality(PatternBindings) = Cardinality(GivenPatterns)
       /\ Cardinality(GivenPatterns) <= Len(cfg.allowedRepositories)
       /\ cfg.variant = "direct" =>
            remote.accountIam = {}
            /\ \A b \in remote.projectIam :
                 b.role = "roles/secretmanager.secretAccessor"
       /\ UsesServiceAccount(cfg) =>
            remote.projectIam = AccessorBindings
            /\ Cardinality(AccessorBindings) = 1
            /\ \A b \in remote.accountIam :
                 b.role = "roles/iam.workloadIdentityUser"
       /\ cfg.variant = "poolwide" =>
            Cardinality(remote.projectIam) = 1 /\ remote.accountIam = {}

C2_Witness ==
  \E p \in Procs :
    /\ proc[p].pc = "done" /\ NoBindingsAtStart
    /\ cfg.variant = "sa"
    /\ Len(cfg.allowedRepositories) = 2
    /\ Cardinality(GivenPatterns) = 2
    /\ Cardinality(remote.accountIam) = 2
    /\ Cardinality(remote.projectIam) = 1

\* Whether a condition compares the repository or its owner with something.
HasOwnerComparison(cond) ==
  /\ cond.attribute \in {"assertion.repository", "assertion.repository_owner"}
  /\ cond.operator # ""

ConfiguredProviders ==
  {q \in remote.providers : q.pool = ExpectedPool /\ q.id = ExpectedProvider}

\* C3 (as stated) -- unscoped-provider guard: once reconcile has ended, no
\* provider is deployed whose attributeCondition holds no repository/owner
\* comparison while no repository-scoped authorization binding exists.
C3_NeverBothUnscoped ==
  \A p \in Procs :
    proc[p].pc = "done"
    => \A q \in ConfiguredProviders :
         HasOwnerComparison(q.attributeCondition) \/ PatternBindings # {}

\* C4 (as stated) -- pattern validation precedes remote calls: with a pattern
\* that holds no "/" the configuration is rejected, no remote call is issued
\* and the remote state is unchanged.
C4_RejectedBeforeRemoteCalls ==
  \A p \in Procs :
    (\E k \in 1..Len(cfg.allowedRepositories) :
        MissingSlash(cfg.allowedRepositories[k]))
    => /\ proc[p].issued = {}
       /\ proc[p].pc # "done"
       /\ remote = start.remote

\* C5 (as stated) -- fail-fast propagation: once any remote call of a run has
\* failed, an existence check included, the run has stopped at that step with
\* the error surfaced (it executes no later step).
C5_FailFast ==
  \A p \in Procs :
    (\E f \in proc[p].failed : f.error = "UNAVAILABLE")
    => proc[p].pc = "aborted"

\* C6 -- resumable partial failure: a run without transient failures ends
\* with exactly the remote state Final; and when a run has aborted at any
\* point (after k of the n binding calls, say), running the whole program
\* again with the same configuration, without transient failure, meets no
\* error and ends with that same remote state.
C6_Resumable ==
  \A p \in Procs :
    LET l == proc[p]
    IN (NeverReconfigured(l) /\ NoTransientFault(l)
        /\ Feasible(start.cfg, start.remote)
        /\ (l.run = 1 \/ l.prev.status = "aborted"))
       => /\ l.failed = {}
          /\ l.pc # "aborted"
          /\ (l.pc = "done" => remote = Final(start.cfg, start.remote))

C6_Witness ==
  \E p \in Procs :
    /\ proc[p].run = 2 /\ proc[p].prev.status = "aborted"
    /\ proc[p].pc = "done" /\ proc[p].failed = {}
    /\ NeverReconfigured(proc[p]) /\ NoBindingsAtStart
    /\ cfg.variant = "direct"
    /\ Cardinality(proc[p].prev.remote.projectIam) = 1
    /\ Cardinality(remote.projectIam) = 2
    /\ remote = Final(start.cfg, start.remote)

\* C7 (as stated) -- secret versioning is append-only: after reconciling a
\* secret with value A and then with value B the secret holds two versions,
\* the first still holding A and readable, the latest holding B.
C7_AppendOnly ==
  \A p \in Procs :
    \A n \in DOMAIN cfg.secrets :
      (proc[p].pc = "done" /\ proc[p].run = 2 /\ proc[p].prev.status = "done"
       /\ EmptyAtStart
       /\ start.cfg.secrets[n] = "A" /\ cfg.secrets[n] = "B")
      => /\ n \in DOMAIN remote.secrets
         /\ remote.secrets[n] =
              <<[data |-> "A", state |-> "ENABLED"],
                [data |-> "B", state |-> "ENABLED"]>>

\* C8 -- provider name format: the workloadIdentityProvider output is
\* projects/N/locations/global/workloadIdentityPools/P/providers/Q with N the
\* project number (not the project id), and every binding the reconcile adds
\* names a principal built from the same N and P.
C8_ProviderName ==
  \A p \in Procs :
    proc[p].pc = "done"
    => /\ proc[p].out.workloadIdentityProvider =
            "projects/" \o remote.number
              \o "/locations/global/workloadIdentityPools/" \o ExpectedPool
              \o "/providers/" \o ExpectedProvider
       /\ remote.number # cfg.projectId
       /\ (remote.number = "123456789" /\ GivenPrefix = "github-secrets")
          => proc[p].out.workloadIdentityProvider =
               "projects/123456789/locations/global/workloadIdentityPools/github-secrets-pool/providers/github-secrets-github"
       /\ \A b \in (remote.projectIam \cup remote.accountIam)
                     \ (start.remote.projectIam \cup start.remote.accountIam) :
            \/ b.member \in {ExpectedPrincipal(r) : r \in GivenPatterns}
            \/ b.member = "serviceAccount:" \o ExpectedEmail
            \/ b.member =
                 "principalSet://iam.googleapis.com/projects/" \o remote.number
                   \o "/locations/global/workloadIdentityPools/"
                   \o ExpectedPool \o "/*"

C8_Witness ==
  \E p \in Procs :
    /\ proc[p].pc = "done"
    /\ proc[p].out.workloadIdentityProvider =
         "projects/123456789/locations/global/workloadIdentityPools/github-secrets-pool/providers/github-secrets-github"
    /\ \E b \in remote.accountIam \ start.remote.accountIam :
         b.member =
           "principalSet://iam.googleapis.com/projects/123456789/locations/global/workloadIdentityPools/github-secrets-pool/attribute.repository/a/*"

\* C9 -- deterministic resource identities: in the service-identity variant,
\* from a project that holds none of these resources, a successful reconcile
\* with prefix X leaves exactly one pool X-pool, one provider X-github in it,
\* one service identity X-reader, one secret-accessor binding for it, one
\* impersonation binding on it per allowed pattern, and one secret per
\* configured name with one version holding the configured value; nothing
\* else.
C9_Identities ==
  \A p \in Procs :
    (proc[p].pc = "done" /\ UsesServiceAccount(cfg) /\ EmptyAtStart
     /\ NeverReconfigured(proc[p]))
    => /\ Cardinality(remote.pools) = 1
       /\ \A q \in remote.pools : q.id = ExpectedPool
       /\ Cardinality(remote.providers) = 1
       /\ \A q \in remote.providers :
            q.id = ExpectedProvider /\ q.pool = ExpectedPool
       /\ Cardinality(remote.accounts) = 1
       /\ \A q \in remote.accounts : q.email = ExpectedEmail
       /\ remote.projectIam =
            {[member |-> "serviceAccount:" \o ExpectedEmail,
              role |-> "roles/secretmanager.secretAccessor"]}
       /\ remote.accountIam =
            {[account |-> ExpectedEmail, member |-> ExpectedPrincipal(r),
              role |-> "roles/iam.workloadIdentityUser"] : r \in GivenPatterns}
       /\ DOMAIN remote.secrets = DOMAIN cfg.secrets
       /\ \A n \in DOMAIN cfg.secrets :
            remote.secrets[n] =
              <<[data |-> cfg.secrets[n], state |-> "ENABLED"]>>

C9_Witness ==
  \E p \in Procs :
    /\ proc[p].pc = "done" /\ cfg.variant = "pulumi" /\ EmptyAtStart
    /\ cfg.resourcePrefix = "gs"
    /\ cfg.allowedRepositories = <<OrgWildcard>>
    /\ \E q \in remote.pools : q.id = "gs-pool"
    /\ \E q \in remote.providers : q.id = "gs-github"
    /\ \E q \in remote.accounts :
         q.email = "gs-reader@gcp-github-secrets.iam.gserviceaccount.com"
    /\ Cardinality(remote.accountIam) = 1
    /\ "npm-token" \in DOMAIN remote.secrets
    /\ remote.secrets["npm-token"] = <<[data |-> "A", state |-> "ENABLED"]>>

\* The order of the remote calls of the current run.
PoolCall == Call("pools.create", 0)
BindingCalls(l) ==
  {c \in l.issued : c.name \in {"accessor.bind", "repo.bind", "pool.bind"}}
PoolExists == \E q \in remote.pools : q.id = ExpectedPool
AccountExists == \E q \in remote.accounts : q.email = ExpectedEmail

\* C10 (as stated) -- dependency order: in every execution, APIs are enabled
\* only once the project exists, the pool is created only after API
\* enablement, the provider only after its pool exists, the project number
\* is resolved before any per-pattern principal is built, and every
\* authorization binding is issued only after the pool (and, in the
\* service-identity variant, the service identity) exists.
C10_OrderInEveryVariant ==
  \A p \in Procs :
    LET l == proc[p]
    IN /\ Succeeded(l, Call("services.enable", 0)) => remote.project
       /\ Succeeded(l, PoolCall) => remote.apis
       /\ Succeeded(l, Call("providers.create", 0)) => PoolExists
       /\ (\E c \in l.issued : c.name \in {"repo.bind", "pool.bind"})
          => l.PROJECT_NUMBER # ""
       /\ BindingCalls(l) # {}
          => PoolExists /\ (UsesServiceAccount(cfg) => AccountExists)

\* C10 (amended) -- in the three scripts the order is as stated.  The
\* component has no project and no API-enablement step (both are
\* prerequisites of running it); in it the provider is created only after its
\* pool exists, the project number is resolved before any per-pattern
\* principal is built, every per-pattern binding is issued only after the
\* pool and the service identity exist, and the secret-accessor binding only
\* after the service identity exists (it does not wait for the pool).
C10_Order ==
  \A p \in Procs :
    LET l == proc[p]
    IN /\ IsScript(cfg) =>
            /\ Succeeded(l, Call("services.enable", 0)) => remote.project
            /\ Succeeded(l, PoolCall) =>
                 remote.apis /\ Succeeded(l, Call("services.enable", 0))
            /\ BindingCalls(l) # {}
               => PoolExists /\ (UsesServiceAccount(cfg) => AccountExists)
       /\ Succeeded(l, Call("providers.create", 0)) => PoolExists
       /\ (\E c \in l.issued : c.name \in {"repo.bind", "pool.bind"})
          => /\ l.PROJECT_NUMBER # "" /\ l.PROJECT_NUMBER = remote.number
             /\ PoolExists
             /\ UsesServiceAccount(cfg) => AccountExists
       /\ Call("accessor.bind", 0) \in l.issued => AccountExists

C10_Witness ==
  \E p \in Procs :
    /\ proc[p].pc = "done" /\ cfg.variant = "sa"
    /\ start.remote = NoProject
    /\ Succeeded(proc[p], Call("projects.create", 0))
    /\ Succeeded(proc[p], Call("services.enable", 0))
    /\ Succeeded(proc[p], PoolCall)
    /\ Succeeded(proc[p], Call("providers.create", 0))
    /\ Succeeded(proc[p], Call("accessor.bind", 0))
    /\ Succeeded(proc[p], Call("repo.bind", 1))

\* The resources with the configured ids as a remote state holds them.
PoolsNamed(r) == {q \in r.pools : q.id = ExpectedPool}
ProvidersNamed(r) ==
  {q \in r.providers : q.pool = ExpectedPool /\ q.id = ExpectedProvider}
AccountsNamed(r) == {q \in r.accounts : q.email = ExpectedEmail}

Creates(l, name) == Call(name, 0) \in l.issued

\* C11 (as stated) -- create-if-absent leaves existing resources untouched:
\* when a pool, provider or service identity with the derived id exists
\* before a run, whatever its display name, attribute mapping or attribute
\* condition, the run issues no create (or update) for it and its stored
\* fields are unchanged afterwards.
C11_ExistingUntouched ==
  \A p \in Procs :
    LET l == proc[p]
        before == l.prev.remote
    IN /\ PoolsNamed(before) # {}
          => ~Creates(l, "pools.create") /\ PoolsNamed(remote) = PoolsNamed(before)
       /\ ProvidersNamed(before) # {}
          => /\ ~Creates(l, "providers.create")
             /\ ProvidersNamed(remote) = ProvidersNamed(before)
       /\ AccountsNamed(before) # {}
          => /\ ~Creates(l, "accounts.create")
             /\ AccountsNamed(remote) = AccountsNamed(before)

\* What does hold of resources that exist before a run: their stored fields
\* are never changed; a script whose existence checks are answered issues no
\* create for them; a create that is issued all the same (by the component
\* for a resource outside its stack, by a script whose existence check
\* failed) is rejected by the provider and ends the run.
ExistingFieldsKept ==
  \A p \in Procs :
    LET l == proc[p]
        before == l.prev.remote
        kept(name, was, is) ==
          was # {}
          => /\ is = was
             /\ (IsScript(cfg) /\ NoTransientFault(l)) => ~Creates(l, name)
             /\ Creates(l, name)
                => /\ l.pc = "aborted"
                   /\ \E f \in l.failed :
                        /\ f.call = Call(name, 0)
                        /\ f.error \in {"ALREADY_EXISTS", "UNAVAILABLE"}
    IN /\ kept("pools.create", PoolsNamed(before), PoolsNamed(remote))
       /\ kept("providers.create", ProvidersNamed(before),
               ProvidersNamed(remote))
       /\ kept("accounts.create", AccountsNamed(before), AccountsNamed(remote))

\* A script run over a project provisioned earlier with other display fields.
ExistingFieldsKeptCase ==
  \E p \in Procs :
    /\ proc[p].pc = "done" /\ proc[p].run = 1 /\ cfg.variant = "sa"
    /\ start.remote = LegacyProject
    /\ \E q \in remote.pools : q.id = ExpectedPool /\ q.displayName = "Legacy"
    /\ \E q \in remote.providers :
         q.id = ExpectedProvider /\ q.attributeMapping = MappingWithoutActor
    /\ \E q \in remote.accounts :
         q.email = ExpectedEmail /\ q.displayName = "Legacy"
    /\ Succeeded(proc[p], Call("repo.bind", 1))

\* The lists that hold the same patterns as s, each as often, in any order.
Occurrences(s, x) == Cardinality({k \in 1..Len(s) : s[k] = x})
Reorderings(s) ==
  {t \in SeqsUpTo(Range(s), Len(s)) :
     /\ Len(t) = Len(s)
     /\ \A x \in Range(s) : Occurrences(t, x) = Occurrences(s, x)}

\* The authorization bindings a configuration with pattern list s asks for,
\* each with its principal, its role and its scope (the project, or the
\* service identity), written out.
PassedOn(s) ==
  IF cfg.variant = "pulumi" THEN Range(s) ELSE {Xargs(x) : x \in Range(s)}
AskedOfProject(s) ==
  IF cfg.variant = "direct"
  THEN {[member |-> ExpectedPrincipal(r),
         role |-> "roles/secretmanager.secretAccessor"] : r \in PassedOn(s)}
  ELSE IF cfg.variant = "poolwide"
  THEN {[member |->
           "principalSet://iam.googleapis.com/projects/" \o remote.number
             \o "/locations/global/workloadIdentityPools/" \o ExpectedPool
             \o "/*",
         role |-> "roles/secretmanager.secretAccessor"]}
  ELSE {[member |-> "serviceAccount:" \o ExpectedEmail,
         role |-> "roles/secretmanager.secretAccessor"]}
AskedOfAccount(s) ==
  IF UsesServiceAccount(cfg)
  THEN {[account |-> ExpectedEmail, member |-> ExpectedPrincipal(r),
         role |-> "roles/iam.workloadIdentityUser"] : r \in PassedOn(s)}
  ELSE {}
Outputs ==
  [workloadIdentityProvider |->
     "projects/" \o remote.number \o "/locations/global/workloadIdentityPools/"
       \o ExpectedPool \o "/providers/" \o ExpectedProvider,
   serviceAccountEmail |-> IF UsesServiceAccount(cfg) THEN ExpectedEmail ELSE ""]

Stopped(l) == l.pc \in {"done", "aborted"}
Conflicts(l) == {f \in l.failed : f.error = "ALREADY_EXISTS"}
Accepted(name) == {p \in DOMAIN proc : Succeeded(proc[p], Call(name, 0))}

\* C13 -- concurrent reconcile against a serializing provider: two runs of a
\* script with the same configuration, interleaved in any way.  (a) At no
\* time does the project hold two pools, providers or service identities
\* with the configured id: the provider accepts at most one create of each,
\* and none for one that existed at the start.  (b) Once both runs have
\* stopped, no call having failed transiently, at least one has succeeded and
\* the remote state is the one a single run produces.  (c) A run that aborts
\* without a transient failure aborts with a conflict error from a create
\* that the other run won, and the remote state then holds that resource.
C13_ConcurrentRuns ==
  /\ Cardinality(PoolsNamed(remote)) <= 1
  /\ Cardinality(ProvidersNamed(remote)) <= 1
  /\ Cardinality(AccountsNamed(remote)) <= 1
  /\ Cardinality(Accepted("projects.create"))
       <= (IF start.remote.project THEN 0 ELSE 1)
  /\ Cardinality(Accepted("pools.create"))
       <= (IF PoolsNamed(start.remote) # {} THEN 0 ELSE 1)
  /\ Cardinality(Accepted("providers.create"))
       <= (IF ProvidersNamed(start.remote) # {} THEN 0 ELSE 1)
  /\ Cardinality(Accepted("accounts.create"))
       <= (IF AccountsNamed(start.remote) # {} THEN 0 ELSE 1)
  /\ (\A p \in DOMAIN proc : Stopped(proc[p]) /\ NoTransientFault(proc[p]))
     => /\ \E p \in DOMAIN proc : proc[p].pc = "done"
        /\ remote = Final(start.cfg, start.remote)
        /\ \A p \in DOMAIN proc : proc[p].pc = "done" => proc[p].out = Outputs
  /\ \A p \in DOMAIN proc :
       (proc[p].pc = "aborted" /\ faults = 0)
       => /\ Cardinality(Conflicts(proc[p])) = 1
          /\ proc[p].failed = Conflicts(proc[p])
          /\ \A f \in proc[p].failed :
               /\ f.call.name \in {"projects.create", "pools.create",
                                   "providers.create", "accounts.create"}
               /\ \E q \in DOMAIN proc \ {p} : Succeeded(proc[q], f.call)

\* One caller lost the race for the pool and aborted with the conflict, the
\* other ran to its end.
C13_Witness ==
  /\ DOMAIN proc = Callers
  /\ faults = 0
  /\ proc[1].pc = "aborted"
  /\ [call |-> Call("pools.create", 0), error |-> "ALREADY_EXISTS"]
       \in proc[1].failed
  /\ proc[2].pc = "done"
  /\ Succeeded(proc[2], Call("pools.create", 0))
  /\ cfg.variant = "sa" /\ Len(cfg.allowedRepositories) = 2
  /\ Cardinality(PoolsNamed(remote)) = 1
  /\ Cardinality(remote.accountIam \ start.remote.accountIam) = 2
  /\ remote = Final(start.cfg, start.remote)

====
